---- MODULE Spec2Model ----
(***************************************************************************)
(* Model of vsphere-influxdb.go: resolution of the declared metrics        *)
(* against the counter catalog (VCenter.Init), and the polling cycle of a  *)
(* source (VCenter.Query): inventory, performance query, reduction of the  *)
(* sample series, assembly of the points, write to the sink.               *)
(*                                                                         *)
(* Go strings the code computes with (ToLower, Replace, HasSuffix, Split,  *)
(* Index) are sequences of one-character strings.  Opaque identifiers      *)
(* (the Value of a managed object reference, the literal keys of the tag   *)
(* map) are TLA+ strings.                                                  *)
(***************************************************************************)
EXTENDS Integers, Sequences, FiniteSets, TLC

VARIABLES
    config,        \* the decoded Configuration (Domain, Metrics, VCenters)
    platform,      \* per source: the vCenter's catalog, inventory and samples
    MetricGroups,  \* per source: vcenter.MetricGroups
    pc,            \* main's position: "init" | "query" | "done"
    cur,           \* index into config.VCenters of the loop main is in
    stage,         \* position inside VCenter.Query of source cur
    loc,           \* the locals of the running VCenter.Query
    bp,            \* the batch points of the running VCenter.Query
    log,           \* the calls the running VCenter.Query has made, in order
    served,        \* per source: the requests the platform and the sink received
    aggName,       \* reduction check: the metric name
    aggSamples,    \* reduction check: the sample series
    aggValue       \* reduction check: <<>> before, <<value>> after

vars == <<config, platform, MetricGroups, pc, cur, stage, loc, bp, log, served,
          aggName, aggSamples, aggValue>>

mainVars == <<config, platform, MetricGroups, pc, cur, stage, loc, bp, log, served>>
aggVars == <<aggName, aggSamples, aggValue>>

(***************************************************************************)
(* Bounds of the model.                                                    *)
(***************************************************************************)
NumSources == 2
MaxLen == 3
MaxSample == 3

----------------------------------------------------------------------------
(***************************************************************************)
(* Strings.                                                                *)
(***************************************************************************)
UpperChars == <<"A","B","C","D","E","F","G","H","I","J","K","L","M",
                "N","O","P","Q","R","S","T","U","V","W","X","Y","Z">>
LowerChars == <<"a","b","c","d","e","f","g","h","i","j","k","l","m",
                "n","o","p","q","r","s","t","u","v","w","x","y","z">>

ToLowerChar(c) ==
    IF \E i \in 1..Len(UpperChars) : UpperChars[i] = c
    THEN LowerChars[CHOOSE i \in 1..Len(UpperChars) : UpperChars[i] = c]
    ELSE c

\* strings.ToLower
ToLower(s) == [i \in 1..Len(s) |-> ToLowerChar(s[i])]

\* strings.HasSuffix
HasSuffix(s, suffix) ==
    /\ Len(s) >= Len(suffix)
    /\ SubSeq(s, Len(s) - Len(suffix) + 1, Len(s)) = suffix

\* strings.Index: the offset of the first occurrence of sub in s, or -1
Index(s, sub) ==
    LET hits == {i \in 0..(Len(s) - Len(sub)) : SubSeq(s, i + 1, i + Len(sub)) = sub}
    IN  IF hits = {} THEN -1
        ELSE CHOOSE i \in hits : \A j \in hits : i <= j

\* strings.Replace(s, old, new, -1): every non-overlapping occurrence, left to
\* right; an empty old matches before every character and at the end.
RECURSIVE Replace(_, _, _)
Replace(s, old, new) ==
    IF old = <<>>
    THEN IF s = <<>> THEN new
         ELSE new \o <<Head(s)>> \o Replace(Tail(s), old, new)
    ELSE IF Len(s) < Len(old) THEN s
    ELSE IF SubSeq(s, 1, Len(old)) = old
         THEN new \o Replace(SubSeq(s, Len(old) + 1, Len(s)), old, new)
         ELSE <<Head(s)>> \o Replace(Tail(s), old, new)

\* strings.Split(s, sep)[0] for a non-empty sep
SplitFirst(s, sep) ==
    IF Index(s, sep) = -1 THEN s ELSE SubSeq(s, 1, Index(s, sep))

\* re.FindString for the expression \[(.*?)\]: the leftmost "[" that a "]"
\* follows, up to the first "]" after it; "" when there is none.
FindBracket(s) ==
    LET opens == {i \in 1..Len(s) : s[i] = "[" /\ \E j \in (i+1)..Len(s) : s[j] = "]"}
    IN  IF opens = {} THEN <<>>
        ELSE LET i == CHOOSE a \in opens : \A b \in opens : a <= b
                 j == CHOOSE a \in (i+1)..Len(s) :
                          s[a] = "]" /\ \A b \in (i+1)..(a-1) : s[b] # "]"
             IN  SubSeq(s, i, j)

dot == <<".">>
underscore == <<"_">>
sAverage == <<".","a","v","e","r","a","g","e">>
sMaximum == <<".","m","a","x","i","m","u","m">>
sMinimum == <<".","m","i","n","i","m","u","m">>
sLatest == <<".","l","a","t","e","s","t">>
sSummation == <<".","s","u","m","m","a","t","i","o","n">>
sDatastore == <<"d","a","t","a","s","t","o","r","e">>
cpu_corecount_total == <<"c","p","u","_","c","o","r","e","c","o","u","n","t",
                         "_","t","o","t","a","l">>

----------------------------------------------------------------------------
(***************************************************************************)
(* Maps.  A Go map is a function; a key that is absent reads as the zero   *)
(* value.                                                                  *)
(***************************************************************************)
EmptyMap == <<>>
MapPut(m, k, v) == [x \in (DOMAIN m) \cup {k} |-> IF x = k THEN v ELSE m[x]]
\* for key, v := range src { dst[key] = v }
MapMerge(dst, src) ==
    [x \in (DOMAIN dst) \cup (DOMAIN src) |-> IF x \in DOMAIN src THEN src[x] ELSE dst[x]]
MapGetStr(m, k) == IF k \in DOMAIN m THEN m[k] ELSE <<>>

\* A loop over a sequence: Op(... Op(Op(acc, s[1]), s[2]) ..., s[n])
RECURSIVE FoldLeft(_, _, _)
FoldLeft(Op(_, _), acc, s) ==
    IF s = <<>> THEN acc
    ELSE Op(FoldLeft(Op, acc, SubSeq(s, 1, Len(s) - 1)), s[Len(s)])

\* The concatenation of a sequence of sequences.
RECURSIVE Flatten(_)
Flatten(ss) == IF ss = <<>> THEN <<>> ELSE Head(ss) \o Flatten(Tail(ss))

----------------------------------------------------------------------------
(***************************************************************************)
(* The reductions of a sample series.                                      *)
(***************************************************************************)
RECURSIVE min(_)
min(n) ==
    IF n = <<>> THEN -1
    ELSE LET m == min(SubSeq(n, 1, Len(n) - 1))
             i == n[Len(n)]
         IN  IF i >= 0
             THEN IF m = -1 THEN i ELSE IF i < m THEN i ELSE m
             ELSE m

RECURSIVE max(_)
max(n) ==
    IF n = <<>> THEN -1
    ELSE LET m == max(SubSeq(n, 1, Len(n) - 1))
             i == n[Len(n)]
         IN  IF i >= 0
             THEN IF m = -1 THEN i ELSE IF i > m THEN i ELSE m
             ELSE m

RECURSIVE sum(_)
sum(n) ==
    IF n = <<>> THEN 0
    ELSE sum(SubSeq(n, 1, Len(n) - 1)) + (IF n[Len(n)] > 0 THEN n[Len(n)] ELSE 0)

RECURSIVE averageTotal(_)
averageTotal(n) ==
    IF n = <<>> THEN 0
    ELSE averageTotal(Tail(n)) + (IF Head(n) >= 0 THEN Head(n) ELSE 0)

averageCount(n) == Cardinality({i \in 1..Len(n) : n[i] >= 0})

\* int64 of a NaN is implementation-dependent: 0 on some builds, the most
\* negative integer on others (here the most negative integer TLC represents).
NaNToInt64 == {0, -2147483647}

\* average without the rounding: the mean is truncated.
averageTruncated(n, nan) ==
    IF averageCount(n) = 0 THEN nan
    ELSE averageTotal(n) \div averageCount(n)

\* average, on a build where int64(NaN) is nan.  For count > 0,
\* floor(total/count + .5) = (2*total + count) \div (2*count).
average(n, nan) ==
    IF averageCount(n) = 0 THEN nan
    ELSE (2 * averageTotal(n) + averageCount(n)) \div (2 * averageCount(n))

\* The value of a series: the dispatch on the suffix of the metric name.
SerieValue(metricName, Value, nan) ==
    IF HasSuffix(metricName, sAverage) THEN average(Value, nan)
    ELSE IF HasSuffix(metricName, sMaximum) THEN max(Value)
    ELSE IF HasSuffix(metricName, sMinimum) THEN min(Value)
    ELSE IF HasSuffix(metricName, sLatest) THEN Value[Len(Value)]
    ELSE IF HasSuffix(metricName, sSummation) THEN sum(Value)
    ELSE -1

----------------------------------------------------------------------------
(***************************************************************************)
(* The strings of the configurations and platforms the model runs on.      *)
(***************************************************************************)
VirtualMachine == <<"V","i","r","t","u","a","l","M","a","c","h","i","n","e">>
HostSystem == <<"H","o","s","t","S","y","s","t","e","m">>
ClusterComputeResource == <<"C","l","u","s","t","e","r","C","o","m","p","u","t","e","R","e","s","o","u","r","c","e">>
Datacenter == <<"D","a","t","a","c","e","n","t","e","r">>
Folder == <<"F","o","l","d","e","r">>
Datastore == <<"D","a","t","a","s","t","o","r","e">>

noInstance == <<>>
allInstances == <<"*">>

nCpuUsageAverage == <<"c","p","u",".","u","s","a","g","e",".","a","v","e","r","a","g","e">>
nDiskUsageAverage == <<"d","i","s","k",".","u","s","a","g","e",".","a","v","e","r","a","g","e">>
nSysUptimeLatest == <<"s","y","s",".","u","p","t","i","m","e",".","l","a","t","e","s","t">>
nDatastoreReadAverage == <<"d","a","t","a","s","t","o","r","e",".","r","e","a","d",".","a","v","e","r","a","g","e">>
nNetUsageMaximum == <<"n","e","t",".","u","s","a","g","e",".","m","a","x","i","m","u","m">>
nMemActiveMinimum == <<"m","e","m",".","a","c","t","i","v","e",".","m","i","n","i","m","u","m">>
nVirtualDiskReadAverage == <<"v","i","r","t","u","a","l","D","i","s","k",".","r","e","a","d",".","a","v","e","r","a","g","e">>
nCpuReadySummation == <<"c","p","u",".","r","e","a","d","y",".","s","u","m","m","a","t","i","o","n">>
nCpuUsageNone == <<"c","p","u",".","u","s","a","g","e",".","n","o","n","e">>
nMemAbsentAverage == <<"m","e","m",".","a","b","s","e","n","t",".","a","v","e","r","a","g","e">>

domLab == <<".","l","a","b">>
Digits == <<"1","2","3","4","5","6","7","8","9">>

----------------------------------------------------------------------------
(***************************************************************************)
(* Configurations (the decoded /etc/<name>.json).                          *)
(***************************************************************************)
MetricDef(metric, instances, key) ==
    [Metric |-> metric, Instances |-> instances, Key |-> key]
Metric(objectType, definition) ==
    [ObjectType |-> objectType, Definition |-> definition]
MetricGroup(objectType, metrics) ==
    [ObjectType |-> objectType, Metrics |-> metrics]

\* The hostname of the i-th configured source.
Hostname(i) == <<"v","c", Digits[i]>> \o domLab

VCenters == [i \in 1..NumSources |-> [Hostname |-> Hostname(i)]]

\* One VM metric set: an aggregate counter and a per-instance counter.
ConfigA ==
    [Domain |-> domLab,
     Metrics |-> << Metric(<<VirtualMachine>>,
                          << MetricDef(nCpuUsageAverage, noInstance, 0),
                             MetricDef(nDiskUsageAverage, allInstances, 0) >>) >>,
     VCenters |-> VCenters]

\* Overlapping metric sets: cpu.usage.average is declared twice for VMs.
ConfigB ==
    [Domain |-> domLab,
     Metrics |-> << Metric(<<VirtualMachine, HostSystem>>,
                          << MetricDef(nCpuUsageAverage, noInstance, 0),
                             MetricDef(nSysUptimeLatest, noInstance, 0) >>),
                    Metric(<<VirtualMachine>>,
                          << MetricDef(nCpuUsageAverage, noInstance, 0),
                             MetricDef(nMemActiveMinimum, noInstance, 0) >>) >>,
     VCenters |-> VCenters]

\* No domain; per-instance host and VM counters, a datastore counter, a type
\* that is neither VM nor host, a counter no catalog has, a rollup that is
\* none of the five.
ConfigC ==
    [Domain |-> <<>>,
     Metrics |-> << Metric(<<HostSystem, Datastore>>,
                          << MetricDef(nDatastoreReadAverage, allInstances, 0),
                             MetricDef(nNetUsageMaximum, allInstances, 0),
                             MetricDef(nMemAbsentAverage, noInstance, 0) >>),
                    Metric(<<VirtualMachine>>,
                          << MetricDef(nVirtualDiskReadAverage, allInstances, 0),
                             MetricDef(nCpuReadySummation, allInstances, 0),
                             MetricDef(nCpuUsageNone, noInstance, 0) >>) >>,
     VCenters |-> VCenters]

Configs == {ConfigA, ConfigB, ConfigC}

----------------------------------------------------------------------------
(***************************************************************************)
(* Platforms: what a vCenter answers.                                      *)
(***************************************************************************)
PerfCounter(groupKey, nameKey, rollupType, key) ==
    [GroupKey |-> groupKey, NameKey |-> nameKey, RollupType |-> rollupType, Key |-> key]
Ref(type, value) == [Type |-> type, Value |-> value]
Serie(counterId, instance, value) ==
    [CounterId |-> counterId, Instance |-> instance, Value |-> value]

wCpu == <<"c","p","u">>
wDisk == <<"d","i","s","k">>
wSys == <<"s","y","s">>
wNet == <<"n","e","t">>
wMem == <<"m","e","m">>
wVirtualDisk == <<"v","i","r","t","u","a","l","D","i","s","k">>
wUsage == <<"u","s","a","g","e">>
wUptime == <<"u","p","t","i","m","e">>
wRead == <<"r","e","a","d">>
wReady == <<"r","e","a","d","y">>
wActive == <<"a","c","t","i","v","e">>
wAverage == <<"a","v","e","r","a","g","e">>
wMaximum == <<"m","a","x","i","m","u","m">>
wMinimum == <<"m","i","n","i","m","u","m">>
wLatest == <<"l","a","t","e","s","t">>
wSummation == <<"s","u","m","m","a","t","i","o","n">>
wNone == <<"n","o","n","e">>

FullCatalog ==
    << PerfCounter(wCpu, wUsage, wAverage, 2),
       PerfCounter(wCpu, wUsage, wNone, 1),
       PerfCounter(wCpu, wReady, wSummation, 12),
       PerfCounter(wMem, wActive, wMinimum, 30),
       PerfCounter(wDisk, wUsage, wAverage, 125),
       PerfCounter(wNet, wUsage, wMaximum, 143),
       PerfCounter(wSys, wUptime, wLatest, 155),
       PerfCounter(sDatastore, wRead, wAverage, 178),
       PerfCounter(wVirtualDisk, wRead, wAverage, 180) >>

\* An older platform: no disk.usage.average, and other counter ids.
SmallCatalog ==
    << PerfCounter(wCpu, wUsage, wAverage, 6),
       PerfCounter(wSys, wUptime, wLatest, 7),
       PerfCounter(wNet, wUsage, wMaximum, 8),
       PerfCounter(wCpu, wReady, wSummation, 9) >>

dc1 == Ref(Datacenter, "datacenter-1")
dc2 == Ref(Datacenter, "datacenter-2")
folder1 == Ref(Folder, "group-1")
vm1 == Ref(VirtualMachine, "vm-1")
vm2 == Ref(VirtualMachine, "vm-2")
host1 == Ref(HostSystem, "host-1")
cluster1 == Ref(ClusterComputeResource, "domain-c1")
ds1 == Ref(Datastore, "datastore-1")

\* Two datacenters; a VM in a cluster on a host, a VM outside any cluster.
PlatformX ==
    [catalog |-> FullCatalog,
     ChildEntity |-> <<dc1, folder1, dc2>>,
     content |-> (dc1 :> <<vm1, host1, cluster1, ds1>> @@ dc2 :> <<vm2>>),
     name |-> (vm1 :> <<"V","M","1",".","l","a","b">> @@ vm2 :> <<"d","b",".","l","a","b",".","l","a","b","2">>
               @@ host1 :> <<"e","s","x","1",".","l","a","b">> @@ cluster1 :> <<"C","L","1">> @@ ds1 :> <<"d","s","1">>),
     vmSummary |-> (vm1 :> [Config |-> <<"{","v","m","1"," ","[","d","s","1","]"," ","v","m","1","/","v","m","1",".","v","m","x","}">>, Host |-> host1]
                    @@ vm2 :> [Config |-> <<"{","d","b"," ","n","o","-","d","a","t","a","s","t","o","r","e","}">>, Host |-> host1]),
     hostSummary |-> (host1 :> [Name |-> <<"e","s","x","1",".","l","a","b">>, NumCpuThreads |-> 16]),
     clusterConfig |-> (cluster1 :> [Name |-> <<"C","L","1">>, DasVmConfig |-> <<vm1>>]),
     series |-> (vm1 :> << Serie(2, <<>>, <<40, 60>>),
                           Serie(1, <<>>, <<7>>),
                           Serie(12, <<>>, <<3, -1, 4>>),
                           Serie(12, <<"0">>, <<0, 5>>),
                           Serie(30, <<>>, <<5, -1, 2>>),
                           Serie(125, <<"s","c","s","i","0">>, <<20, 30>>),
                           Serie(125, <<"s","c","s","i","1">>, <<5, 15>>),
                           Serie(155, <<>>, <<1, 2, -1>>),
                           Serie(180, <<"S",".","0">>, <<1, 2>>),
                           Serie(180, <<"s","_","0">>, <<4>>) >>
                 @@ vm2 :> << Serie(2, <<>>, <<-1, -1>>),
                              Serie(125, <<"s","c","s","i","0">>, <<-1, 10>>) >>
                 @@ host1 :> << Serie(2, <<>>, <<10, 20, 30>>),
                                Serie(155, <<>>, <<9>>),
                                Serie(143, <<"v","m","n","i","c","0">>, <<-1, -1>>),
                                Serie(143, <<>>, <<8, 3>>),
                                Serie(178, <<"d","s",".","A">>, <<6, 7>>) >>)]

\* One datacenter holding one host and one VM, no cluster.
PlatformY ==
    [catalog |-> SmallCatalog,
     ChildEntity |-> <<dc1>>,
     content |-> (dc1 :> <<host1, vm1>>),
     name |-> (host1 :> <<"e","s","x","1">> @@ vm1 :> <<"W","e","b",".","L","A","B">>),
     vmSummary |-> (vm1 :> [Config |-> <<"[","a","[","b","]"," ","x","]">>, Host |-> host1]),
     hostSummary |-> (host1 :> [Name |-> <<"e","s","x","1">>, NumCpuThreads |-> 8]),
     clusterConfig |-> <<>>,
     series |-> (host1 :> << Serie(6, <<>>, <<1, 2>>),
                             Serie(7, <<>>, <<3>>),
                             Serie(8, <<"v","m","n","i","c","0">>, <<2, 9>>),
                             Serie(8, <<"v","m","n","i","c","1">>, <<4>>) >>
                 @@ vm1 :> << Serie(6, <<>>, <<0, 1>>),
                              Serie(9, <<"0">>, <<2, 2>>),
                              Serie(9, <<"1">>, <<-3, 1>>) >>)]

Platforms == {PlatformX, PlatformY}

----------------------------------------------------------------------------
(***************************************************************************)
(* VCenter.Init: resolution of the declared metrics against the catalog.   *)
(***************************************************************************)
\* groupinfo.Key + "." + nameinfo.Key + "." + fmt.Sprint(perf.RollupType)
identifier(perf) == perf.GroupKey \o dot \o perf.NameKey \o dot \o perf.RollupType

\* The loop over the groups without its match: every addition is a new group.
AddToGroupAlwaysNew(groups, mtype, metricd) ==
    Append(groups, MetricGroup(mtype, <<metricd>>))

\* The body of the loop over metric.ObjectType: append to the first group of
\* that type, or append a new group.
AddToGroup(groups, mtype, metricd) ==
    IF \E i \in 1..Len(groups) : groups[i].ObjectType = mtype
    THEN LET i == CHOOSE a \in 1..Len(groups) :
                      /\ groups[a].ObjectType = mtype
                      /\ \A b \in 1..(a-1) : groups[b].ObjectType # mtype
         IN  [groups EXCEPT ![i].Metrics = Append(@, metricd)]
    ELSE Append(groups, MetricGroup(mtype, <<metricd>>))

\* The additions to the groups that the loops over the definitions of one
\* metric set make for one counter, in the order the loops make them.
DefinitionAdditions(perf, metric, metricdef) ==
    IF metricdef.Metric = identifier(perf)
    THEN [i \in 1..Len(metric.ObjectType) |->
             [mtype |-> metric.ObjectType[i],
              metricd |-> MetricDef(metricdef.Metric, metricdef.Instances, perf.Key)]]
    ELSE <<>>

MetricAdditions(perf, metric) ==
    Flatten([i \in 1..Len(metric.Definition) |->
                DefinitionAdditions(perf, metric, metric.Definition[i])])

\* The loop over config.Metrics, for one counter.
PerfAdditions(perf, metrics) ==
    Flatten([i \in 1..Len(metrics) |-> MetricAdditions(perf, metrics[i])])

\* The loop over perfmanager.PerfCounter.
ResolveCatalog(groups, catalog, metrics) ==
    LET add(g, a) == AddToGroup(g, a.mtype, a.metricd)
    IN  FoldLeft(add, groups,
                 Flatten([i \in 1..Len(catalog) |-> PerfAdditions(catalog[i], metrics)]))

----------------------------------------------------------------------------
(***************************************************************************)
(* The run of main: the Init pass over the sources, then the Query pass.   *)
(***************************************************************************)
Call(call, ok) == [call |-> call, ok |-> ok]

\* What the platform and the sink have received from no source yet.
NotServed == [Connect |-> 0, Refused |-> 0, QueryPerf |-> 0, Write |-> 0]

\* The locals of VCenter.Query before the function is entered.
LocIdle ==
    [datacenters |-> <<>>, objectTypes |-> <<>>, dcIdx |-> 1, mors |-> <<>>,
     vm_refs |-> <<>>, host_refs |-> <<>>, cluster_refs |-> <<>>,
     vmmo |-> <<>>, hsmo |-> <<>>, vmToCluster |-> EmptyMap,
     host_summary |-> EmptyMap, host_extra_metrics |-> EmptyMap,
     vm_summary |-> EmptyMap, morToName |-> EmptyMap, metricToName |-> EmptyMap,
     queries |-> <<>>, perfres |-> <<>>, resIdx |-> 1, vcName |-> <<>>]

AggIdle ==
    /\ aggName = <<>>
    /\ aggSamples = <<>>
    /\ aggValue = <<>>

Init ==
    /\ config \in Configs
    /\ platform \in [1..NumSources -> Platforms]
    /\ MetricGroups = [i \in 1..NumSources |-> <<>>]
    /\ pc = "init"
    /\ cur = 1
    /\ stage = "idle"
    /\ loc = LocIdle
    /\ bp = <<>>
    /\ log = <<>>
    /\ served = [i \in 1..NumSources |-> NotServed]
    /\ AggIdle

\* main's first loop moves to the next source, or to the Query pass.
NextInit ==
    IF cur < Len(config.VCenters)
    THEN cur' = cur + 1 /\ pc' = "init" /\ stage' = "idle"
    ELSE cur' = 1 /\ pc' = "query" /\ stage' = "connect"

\* VCenter.Init returns early: Connect fails, or the performance manager
\* cannot be retrieved.  The source keeps the MetricGroups it had.
InitFail ==
    /\ pc = "init"
    /\ NextInit
    /\ UNCHANGED <<config, platform, MetricGroups, loc, bp, log, served, aggVars>>

\* VCenter.Init: the catalog is read and the declared metrics are resolved.
InitResolve ==
    /\ pc = "init"
    /\ MetricGroups' = [MetricGroups EXCEPT
                          ![cur] = ResolveCatalog(MetricGroups[cur], platform[cur].catalog,
                                                  config.Metrics)]
    /\ NextInit
    /\ UNCHANGED <<config, platform, loc, bp, log, served, aggVars>>

----------------------------------------------------------------------------
(***************************************************************************)
(* VCenter.Query: session and inventory.                                   *)
(***************************************************************************)
\* queryVCenter returns and main's second loop stays on the same source.
ReturnStays ==
    /\ loc' = LocIdle
    /\ bp' = <<>>
    /\ log' = <<>>
    /\ cur' = cur
    /\ pc' = "query" /\ stage' = "connect"

\* queryVCenter returns: the locals of Query are gone, and main's second
\* loop moves to the next source.
Return ==
    /\ loc' = LocIdle
    /\ bp' = <<>>
    /\ log' = <<>>
    /\ cur' = cur + 1
    /\ IF cur < Len(config.VCenters)
       THEN pc' = "query" /\ stage' = "connect"
       ELSE pc' = "done" /\ stage' = "idle"

QueryReturn ==
    /\ pc = "query" /\ stage = "return"
    /\ Return
    /\ UNCHANGED <<config, platform, MetricGroups, served, aggVars>>

Serve(what) == served' = [served EXCEPT ![cur][what] = @ + 1]

\* The platform refuses the session.
Refuse == served' = [served EXCEPT ![cur].Connect = @ + 1, ![cur].Refused = @ + 1]

\* A call fails and Query returns.
Fail(call) ==
    /\ log' = Append(log, Call(call, FALSE))
    /\ stage' = "return"
    /\ UNCHANGED <<pc, cur, loc, bp>>

\* Connect fails and the program exits.
QueryConnectFailExits ==
    /\ pc = "query" /\ stage = "connect"
    /\ Refuse
    /\ log' = Append(log, Call("Connect", FALSE))
    /\ pc' = "done" /\ stage' = "idle"
    /\ cur' = Len(config.VCenters) + 1
    /\ UNCHANGED <<config, platform, MetricGroups, loc, bp, aggVars>>

\* Connect fails: Query returns.
QueryConnectFail ==
    /\ pc = "query" /\ stage = "connect"
    /\ Refuse
    /\ Fail("Connect")
    /\ UNCHANGED <<config, platform, MetricGroups, aggVars>>

QueryConnect ==
    /\ pc = "query" /\ stage = "connect"
    /\ Serve("Connect")
    /\ log' = Append(log, Call("Connect", TRUE))
    /\ stage' = "viewManager"
    /\ UNCHANGED <<config, platform, MetricGroups, pc, cur, loc, bp, aggVars>>

QueryViewManagerFail ==
    /\ pc = "query" /\ stage = "viewManager"
    /\ Fail("RetrieveOne.ViewManager")
    /\ UNCHANGED <<config, platform, MetricGroups, served, aggVars>>

QueryViewManager ==
    /\ pc = "query" /\ stage = "viewManager"
    /\ log' = Append(log, Call("RetrieveOne.ViewManager", TRUE))
    /\ stage' = "rootFolder"
    /\ UNCHANGED <<config, platform, MetricGroups, pc, cur, loc, bp, served, aggVars>>

QueryRootFolderFail ==
    /\ pc = "query" /\ stage = "rootFolder"
    /\ Fail("RetrieveOne.RootFolder")
    /\ UNCHANGED <<config, platform, MetricGroups, served, aggVars>>

\* SelectSeq keeps the order of the sequence.
Datacenters(ChildEntity) == SelectSeq(ChildEntity, LAMBDA child : child.Type = Datacenter)

\* The object types of the container views.
ObjectTypes(groups) ==
    [i \in 1..Len(groups) |-> groups[i].ObjectType] \o <<ClusterComputeResource>>

SeqToSet(s) == {s[i] : i \in 1..Len(s)}

\* The view the platform builds: the objects of the container whose type is
\* one of the requested types.
ContainerView(plat, container, types) ==
    SelectSeq(plat.content[container], LAMBDA mor : mor.Type \in SeqToSet(types))

\* The partition without the copy of mors: the clusters stay in mors.
PartitionKeepsClusters(l) ==
    [l EXCEPT
       !.vm_refs = SelectSeq(l.mors, LAMBDA mor : mor.Type = VirtualMachine),
       !.host_refs = SelectSeq(l.mors, LAMBDA mor : mor.Type = HostSystem),
       !.cluster_refs = SelectSeq(l.mors, LAMBDA mor : mor.Type = ClusterComputeResource)]

\* The loop over mors that assigns each reference to the list of its type,
\* and the copy of mors without the clusters.
Partition(l) ==
    [l EXCEPT
       !.vm_refs = SelectSeq(l.mors, LAMBDA mor : mor.Type = VirtualMachine),
       !.host_refs = SelectSeq(l.mors, LAMBDA mor : mor.Type = HostSystem),
       !.cluster_refs = SelectSeq(l.mors, LAMBDA mor : mor.Type = ClusterComputeResource),
       !.mors = SelectSeq(l.mors, LAMBDA mor : mor.Type = VirtualMachine
                                               \/ mor.Type = HostSystem)]

\* After the body of the datacenter loop: the next datacenter, or the end of
\* the loop and the partition of what was found.
AfterDatacenter(l) ==
    LET n == [l EXCEPT !.dcIdx = @ + 1]
    IN  IF n.dcIdx > Len(n.datacenters)
        THEN /\ loc' = Partition(n)
             /\ stage' = "vmProps"
        ELSE /\ loc' = n
             /\ stage' = "containerView"

QueryRootFolder ==
    /\ pc = "query" /\ stage = "rootFolder"
    /\ log' = Append(log, Call("RetrieveOne.RootFolder", TRUE))
    /\ AfterDatacenter([loc EXCEPT
                          !.datacenters = Datacenters(platform[cur].ChildEntity),
                          !.objectTypes = ObjectTypes(MetricGroups[cur]),
                          !.dcIdx = 0])
    /\ UNCHANGED <<config, platform, MetricGroups, pc, cur, bp, served, aggVars>>

\* CreateContainerView fails for a datacenter: continue with the next one.
QueryCreateContainerViewFail ==
    /\ pc = "query" /\ stage = "containerView"
    /\ log' = Append(log, Call("CreateContainerView", FALSE))
    /\ AfterDatacenter(loc)
    /\ UNCHANGED <<config, platform, MetricGroups, pc, cur, bp, served, aggVars>>

\* The created view cannot be retrieved: continue with the next datacenter.
QueryRetrieveContainerViewFail ==
    /\ pc = "query" /\ stage = "containerView"
    /\ log' = log \o <<Call("CreateContainerView", TRUE),
                       Call("RetrieveOne.ContainerView", FALSE)>>
    /\ AfterDatacenter(loc)
    /\ UNCHANGED <<config, platform, MetricGroups, pc, cur, bp, served, aggVars>>

QueryContainerView ==
    /\ pc = "query" /\ stage = "containerView"
    /\ log' = log \o <<Call("CreateContainerView", TRUE),
                       Call("RetrieveOne.ContainerView", TRUE)>>
    /\ AfterDatacenter([loc EXCEPT
                          !.mors = @ \o ContainerView(platform[cur],
                                                      loc.datacenters[loc.dcIdx],
                                                      loc.objectTypes)])
    /\ UNCHANGED <<config, platform, MetricGroups, pc, cur, bp, served, aggVars>>

\* pc.Retrieve of the VMs' summary fails: Query returns.
QueryVmPropsFail ==
    /\ pc = "query" /\ stage = "vmProps"
    /\ Len(loc.vm_refs) > 0
    /\ Fail("Retrieve.VirtualMachine")
    /\ UNCHANGED <<config, platform, MetricGroups, served, aggVars>>

QueryVmProps ==
    /\ pc = "query" /\ stage = "vmProps"
    /\ IF Len(loc.vm_refs) > 0
       THEN /\ log' = Append(log, Call("Retrieve.VirtualMachine", TRUE))
            /\ loc' = [loc EXCEPT !.vmmo =
                          [i \in 1..Len(loc.vm_refs) |->
                              [Self |-> loc.vm_refs[i],
                               Summary |-> platform[cur].vmSummary[loc.vm_refs[i]]]]]
       ELSE UNCHANGED <<log, loc>>
    /\ stage' = "hostProps"
    /\ UNCHANGED <<config, platform, MetricGroups, pc, cur, bp, served, aggVars>>

\* The failure is logged but Query does not return.
QueryHostPropsFailGoesOn ==
    /\ pc = "query" /\ stage = "hostProps"
    /\ Len(loc.host_refs) > 0
    /\ log' = Append(log, Call("Retrieve.HostSystem", FALSE))
    /\ stage' = "clusterProps"
    /\ UNCHANGED <<config, platform, MetricGroups, pc, cur, loc, bp, served, aggVars>>

QueryHostPropsFail ==
    /\ pc = "query" /\ stage = "hostProps"
    /\ Len(loc.host_refs) > 0
    /\ Fail("Retrieve.HostSystem")
    /\ UNCHANGED <<config, platform, MetricGroups, served, aggVars>>

QueryHostProps ==
    /\ pc = "query" /\ stage = "hostProps"
    /\ IF Len(loc.host_refs) > 0
       THEN /\ log' = Append(log, Call("Retrieve.HostSystem", TRUE))
            /\ loc' = [loc EXCEPT !.hsmo =
                          [i \in 1..Len(loc.host_refs) |->
                              [Self |-> loc.host_refs[i],
                               Summary |-> platform[cur].hostSummary[loc.host_refs[i]]]]]
       ELSE UNCHANGED <<log, loc>>
    /\ stage' = "clusterProps"
    /\ UNCHANGED <<config, platform, MetricGroups, pc, cur, bp, served, aggVars>>

QueryClusterPropsFail ==
    /\ pc = "query" /\ stage = "clusterProps"
    /\ Len(loc.cluster_refs) > 0
    /\ Fail("Retrieve.ClusterComputeResource")
    /\ UNCHANGED <<config, platform, MetricGroups, served, aggVars>>

\* vmToCluster[vm.Key] = cl.Name for every VM of every cluster's DasVmConfig
VmToCluster(clmo) ==
    LET cluster(m, cl) ==
            LET vm(m2, key) == MapPut(m2, key, cl.Name)
            IN  FoldLeft(vm, m, cl.DasVmConfig)
    IN  FoldLeft(cluster, EmptyMap, clmo)

\* host_summary and host_extra_metrics of the retrieved hosts
HostSummary(hsmo) ==
    LET host(m, h) == MapPut(m, h.Self, ("name" :> h.Summary.Name))
    IN  FoldLeft(host, EmptyMap, hsmo)

HostExtraMetrics(hsmo) ==
    LET host(m, h) == MapPut(m, h.Self, (cpu_corecount_total :> h.Summary.NumCpuThreads))
    IN  FoldLeft(host, EmptyMap, hsmo)

\* vm_summary of the retrieved VMs: datastore, cluster (when the VM is in
\* one), esx.  Summary.Config is the text fmt.Sprintln prints for it.
VmSummary(vmmo, vmToCluster, host_summary) ==
    LET one(m, v) ==
            LET ds == Replace(Replace(FindBracket(v.Summary.Config), <<"[">>, <<>>),
                              <<"]">>, <<>>)
                withDs == ("datastore" :> ds)
                withCl == IF MapGetStr(vmToCluster, v.Self) # <<>>
                          THEN MapPut(withDs, "cluster", vmToCluster[v.Self])
                          ELSE withDs
                esx == IF v.Summary.Host \in DOMAIN host_summary
                       THEN host_summary[v.Summary.Host]["name"]
                       ELSE <<>>
            IN  MapPut(m, v.Self, MapPut(withCl, "esx", esx))
    IN  FoldLeft(one, EmptyMap, vmmo)

\* The code between the cluster retrieval and the retrieval of the names.
Summaries(l) ==
    LET hs == HostSummary(l.hsmo)
    IN  [l EXCEPT !.host_summary = hs,
                  !.host_extra_metrics = HostExtraMetrics(l.hsmo),
                  !.vm_summary = VmSummary(l.vmmo, l.vmToCluster, hs)]

QueryClusterProps ==
    /\ pc = "query" /\ stage = "clusterProps"
    /\ IF Len(loc.cluster_refs) > 0
       THEN /\ log' = Append(log, Call("Retrieve.ClusterComputeResource", TRUE))
            /\ loc' = Summaries([loc EXCEPT !.vmToCluster =
                          VmToCluster([i \in 1..Len(loc.cluster_refs) |->
                                         platform[cur].clusterConfig[loc.cluster_refs[i]]])])
       ELSE /\ loc' = Summaries(loc)
            /\ UNCHANGED log
    /\ stage' = "names"
    /\ UNCHANGED <<config, platform, MetricGroups, pc, cur, bp, served, aggVars>>

\* RetrieveProperties fails: Query returns.
QueryNamesFail ==
    /\ pc = "query" /\ stage = "names"
    /\ Fail("RetrieveProperties")
    /\ UNCHANGED <<config, platform, MetricGroups, served, aggVars>>

\* The response cannot be loaded: Query returns.
QueryNamesLoadFail ==
    /\ pc = "query" /\ stage = "names"
    /\ log' = log \o <<Call("RetrieveProperties", TRUE),
                       Call("LoadRetrievePropertiesResponse", FALSE)>>
    /\ stage' = "return"
    /\ UNCHANGED <<config, platform, MetricGroups, pc, cur, loc, bp, served, aggVars>>

\* morToName[object.Self] = object.Name
MorToName(plat, mors) ==
    LET one(m, mor) == MapPut(m, mor, plat.name[mor])
    IN  FoldLeft(one, EmptyMap, mors)

\* metricToName[metricdef.Key] = metricdef.Metric
MetricToName(groups) ==
    LET group(m, metricgroup) ==
            LET def(m2, metricdef) == MapPut(m2, metricdef.Key, metricdef.Metric)
            IN  FoldLeft(def, m, metricgroup.Metrics)
    IN  FoldLeft(group, EmptyMap, groups)

PerfMetricId(counterId, instance) == [CounterId |-> counterId, Instance |-> instance]
PerfQuerySpec(entity, metricId) == [Entity |-> entity, MetricId |-> metricId]

\* The metric ids of one object: those of every group of the object's type.
MetricIds(groups, mor) ==
    LET group(ids, metricgroup) ==
            IF metricgroup.ObjectType = mor.Type
            THEN ids \o [i \in 1..Len(metricgroup.Metrics) |->
                           PerfMetricId(metricgroup.Metrics[i].Key,
                                        metricgroup.Metrics[i].Instances)]
            ELSE ids
    IN  FoldLeft(group, <<>>, groups)

\* The loop that builds the queries: one spec per object of mors.
Queries(groups, mors) ==
    [i \in 1..Len(mors) |-> PerfQuerySpec(mors[i], MetricIds(groups, mors[i]))]

QueryNames ==
    /\ pc = "query" /\ stage = "names"
    /\ log' = log \o <<Call("RetrieveProperties", TRUE),
                       Call("LoadRetrievePropertiesResponse", TRUE)>>
    /\ loc' = [loc EXCEPT !.morToName = MorToName(platform[cur], loc.mors),
                          !.metricToName = MetricToName(MetricGroups[cur]),
                          !.queries = Queries(MetricGroups[cur], loc.mors)]
    /\ stage' = "queryPerf"
    /\ UNCHANGED <<config, platform, MetricGroups, pc, cur, bp, served, aggVars>>

----------------------------------------------------------------------------
(***************************************************************************)
(* VCenter.Query: the performance query.                                   *)
(***************************************************************************)
QueryPerfFail ==
    /\ pc = "query" /\ stage = "queryPerf"
    /\ Serve("QueryPerf")
    /\ Fail("QueryPerf")
    /\ UNCHANGED <<config, platform, MetricGroups, aggVars>>

\* A sequence without the later copies of its elements.
Dedup(s) == SelectSeq([i \in 1..Len(s) |-> <<i, s[i]>>],
                      LAMBDA p : \A j \in 1..(p[1]-1) : s[j] # p[2])

\* What the platform answers to one query spec: for each metric id, in order,
\* the series it holds for that entity and counter, of the instance asked
\* for ("*" is every instance, "" the aggregate); every series of the entity
\* when the spec names no metric.  Whether a metric id given twice is
\* answered twice is the platform's choice (dedup).
PerfEntityMetric(plat, spec, dedup) ==
    LET held == IF spec.Entity \in DOMAIN plat.series THEN plat.series[spec.Entity] ELSE <<>>
        asked == IF dedup
                 THEN [i \in 1..Len(Dedup(spec.MetricId)) |-> Dedup(spec.MetricId)[i][2]]
                 ELSE spec.MetricId
        one(value, id) ==
            value \o SelectSeq(held, LAMBDA serie :
                                  /\ serie.CounterId = id.CounterId
                                  /\ \/ id.Instance = allInstances
                                     \/ serie.Instance = id.Instance)
    IN  [Entity |-> spec.Entity,
         Value |-> IF spec.MetricId = <<>> THEN held ELSE FoldLeft(one, <<>>, asked)]

QueryPerf ==
    /\ pc = "query" /\ stage = "queryPerf"
    /\ Serve("QueryPerf")
    /\ log' = Append(log, Call("QueryPerf", TRUE))
    /\ \E dedup \in BOOLEAN :
          loc' = [loc EXCEPT
                    !.perfres = [i \in 1..Len(loc.queries) |->
                                    PerfEntityMetric(platform[cur], loc.queries[i], dedup)],
                    !.resIdx = 1,
                    !.vcName = Replace(config.VCenters[cur].Hostname, config.Domain, <<>>)]
    /\ bp' = <<>>
    /\ stage' = "points"
    /\ UNCHANGED <<config, platform, MetricGroups, pc, cur, aggVars>>

----------------------------------------------------------------------------
(***************************************************************************)
(* VCenter.Query: the points of one entity of the answer.                  *)
(***************************************************************************)
Point(name, tags, fields) == [name |-> name, tags |-> tags, fields |-> fields]

\* name: the display name without the domain, in lower case
EntityDisplayName(morToName, entity, Domain) ==
    ToLower(Replace(MapGetStr(morToName, entity), Domain, <<>>))

\* The tags of the entity: host and name, then the VM's summary, then the
\* host's summary, each merged over what is there.
Tags(l, entity, Domain) ==
    LET base == ("host" :> l.vcName
                 @@ "name" :> EntityDisplayName(l.morToName, entity, Domain))
        vm == IF entity \in DOMAIN l.vm_summary
              THEN MapMerge(base, l.vm_summary[entity]) ELSE base
    IN  IF entity \in DOMAIN l.host_summary
        THEN MapMerge(vm, l.host_summary[entity]) ELSE vm

\* The instance of a series without the test on "datastore".
InstanceNameAsReported(influxMetricName, instance) ==
    ToLower(Replace(instance, dot, underscore))

\* The instance of a series as the points use it.
InstanceName(influxMetricName, instance) ==
    IF Index(influxMetricName, sDatastore) # -1 THEN <<>>
    ELSE ToLower(Replace(instance, dot, underscore))

\* special_fields and special_tags are keyed by measurement, name, instance:
\* here by the triple of them.
NoSeries == [fields |-> EmptyMap, special_fields |-> EmptyMap, special_tags |-> EmptyMap]

\* The loop body with the else branch also storing into fields.
SerieStepAlsoFields(acc, serie, metricToName, tags, nan) ==
    LET metricName == ToLower(MapGetStr(metricToName, serie.CounterId))
        influxMetricName == Replace(metricName, dot, underscore)
        instanceName == InstanceName(influxMetricName, serie.Instance)
        measurementName == SplitFirst(metricName, dot)
        value == SerieValue(metricName, serie.Value, nan)
        key == <<measurementName, tags["name"], instanceName>>
        had == key \in DOMAIN acc.special_fields
    IN  IF instanceName = <<>>
        THEN [acc EXCEPT !.fields = MapPut(@, influxMetricName, value)]
        ELSE [acc EXCEPT
                !.fields = MapPut(@, influxMetricName, value),
                !.special_fields =
                    MapPut(@, key, MapPut(IF had THEN @[key] ELSE EmptyMap,
                                          influxMetricName, value)),
                !.special_tags =
                    MapPut(@, key, MapPut(MapMerge(IF had THEN @[key] ELSE EmptyMap, tags),
                                          "instance", instanceName))]

\* The loop body with special_fields keyed by measurement and name only.
SerieStepKeyWithoutInstance(acc, serie, metricToName, tags, nan) ==
    LET metricName == ToLower(MapGetStr(metricToName, serie.CounterId))
        influxMetricName == Replace(metricName, dot, underscore)
        instanceName == InstanceName(influxMetricName, serie.Instance)
        measurementName == SplitFirst(metricName, dot)
        value == SerieValue(metricName, serie.Value, nan)
        key == <<measurementName, tags["name"], <<>>>>
        had == key \in DOMAIN acc.special_fields
    IN  IF instanceName = <<>>
        THEN [acc EXCEPT !.fields = MapPut(@, influxMetricName, value)]
        ELSE [acc EXCEPT
                !.special_fields =
                    MapPut(@, key, MapPut(IF had THEN @[key] ELSE EmptyMap,
                                          influxMetricName, value)),
                !.special_tags =
                    MapPut(@, key, MapPut(MapMerge(IF had THEN @[key] ELSE EmptyMap, tags),
                                          "instance", instanceName))]

\* The loop body storing a field that is already there under a second name.
SerieStepKeepsBoth(acc, serie, metricToName, tags, nan) ==
    LET metricName == ToLower(MapGetStr(metricToName, serie.CounterId))
        influxMetricName == Replace(metricName, dot, underscore)
        instanceName == InstanceName(influxMetricName, serie.Instance)
        measurementName == SplitFirst(metricName, dot)
        value == SerieValue(metricName, serie.Value, nan)
        key == <<measurementName, tags["name"], instanceName>>
        had == key \in DOMAIN acc.special_fields
        fieldName == IF influxMetricName \in DOMAIN acc.fields
                     THEN influxMetricName \o <<"_", "2">> ELSE influxMetricName
    IN  IF instanceName = <<>>
        THEN [acc EXCEPT !.fields = MapPut(@, fieldName, value)]
        ELSE [acc EXCEPT
                !.special_fields =
                    MapPut(@, key, MapPut(IF had THEN @[key] ELSE EmptyMap,
                                          influxMetricName, value)),
                !.special_tags =
                    MapPut(@, key, MapPut(MapMerge(IF had THEN @[key] ELSE EmptyMap, tags),
                                          "instance", instanceName))]

\* The body of the loop over pem.Value.
SerieStep(acc, serie, metricToName, tags, nan) ==
    LET metricName == ToLower(MapGetStr(metricToName, serie.CounterId))
        influxMetricName == Replace(metricName, dot, underscore)
        instanceName == InstanceName(influxMetricName, serie.Instance)
        measurementName == SplitFirst(metricName, dot)
        value == SerieValue(metricName, serie.Value, nan)
        key == <<measurementName, tags["name"], instanceName>>
        had == key \in DOMAIN acc.special_fields
    IN  IF instanceName = <<>>
        THEN [acc EXCEPT !.fields = MapPut(@, influxMetricName, value)]
        ELSE [acc EXCEPT
                !.special_fields =
                    MapPut(@, key, MapPut(IF had THEN @[key] ELSE EmptyMap,
                                          influxMetricName, value)),
                !.special_tags =
                    MapPut(@, key, MapPut(MapMerge(IF had THEN @[key] ELSE EmptyMap, tags),
                                          "instance", instanceName))]

\* The loop over pem.Value, then the host's extra metrics.
Series(l, pem, tags, nan) ==
    LET step(acc, serie) == SerieStep(acc, serie, l.metricToName, tags, nan)
        acc == FoldLeft(step, NoSeries, pem.Value)
    IN  IF pem.Entity \in DOMAIN l.host_extra_metrics
        THEN [acc EXCEPT !.fields = MapMerge(@, l.host_extra_metrics[pem.Entity])]
        ELSE acc

\* The orders in which the loops over special_fields can visit its keys: a
\* Go map is visited in any order, measurement by measurement.
Orders(keys) ==
    {o \in [1..Cardinality(keys) -> keys] :
        /\ \A i, j \in DOMAIN o : i # j => o[i] # o[j]
        /\ \A i, j, k \in DOMAIN o : (i < j /\ j < k /\ o[i][1] = o[k][1]) => o[j][1] = o[i][1]}

\* The points of one entity: the entity's point, then one per key.
EntityPoints(l, pem, Domain, nan, order) ==
    LET tags == Tags(l, pem.Entity, Domain)
        acc == Series(l, pem, tags, nan)
    IN  <<Point(ToLower(pem.Entity.Type), tags, acc.fields)>>
        \o [i \in 1..Len(order) |->
               Point(order[i][1], acc.special_tags[order[i]], acc.special_fields[order[i]])]

\* The keys of special_fields after the loop over pem.Value.
SpecialKeys(l, pem, Domain) ==
    DOMAIN Series(l, pem, Tags(l, pem.Entity, Domain), 0).special_fields

QueryPoints ==
    /\ pc = "query" /\ stage = "points"
    /\ loc.resIdx <= Len(loc.perfres)
    /\ LET pem == loc.perfres[loc.resIdx]
       IN  \E nan \in NaNToInt64 :
           \E order \in Orders(SpecialKeys(loc, pem, config.Domain)) :
               bp' = bp \o EntityPoints(loc, pem, config.Domain, nan, order)
    /\ loc' = [loc EXCEPT !.resIdx = @ + 1]
    /\ UNCHANGED <<config, platform, MetricGroups, pc, cur, stage, log, served, aggVars>>

\* InfluxDBClient.Write(bp): whatever it answers, Query returns.
QueryWrite ==
    /\ pc = "query" /\ stage = "points"
    /\ loc.resIdx > Len(loc.perfres)
    /\ Serve("Write")
    /\ \E ok \in BOOLEAN : log' = Append(log, Call("Write", ok))
    /\ stage' = "return"
    /\ UNCHANGED <<config, platform, MetricGroups, pc, cur, loc, bp, aggVars>>

Next ==
    \/ InitFail
    \/ InitResolve
    \/ QueryConnectFail
    \/ QueryConnect
    \/ QueryViewManagerFail
    \/ QueryViewManager
    \/ QueryRootFolderFail
    \/ QueryRootFolder
    \/ QueryCreateContainerViewFail
    \/ QueryRetrieveContainerViewFail
    \/ QueryContainerView
    \/ QueryVmPropsFail
    \/ QueryVmProps
    \/ QueryHostPropsFail
    \/ QueryHostProps
    \/ QueryClusterPropsFail
    \/ QueryClusterProps
    \/ QueryNamesFail
    \/ QueryNamesLoadFail
    \/ QueryNames
    \/ QueryPerfFail
    \/ QueryPerf
    \/ QueryPoints
    \/ QueryWrite
    \/ QueryReturn

Spec == Init /\ [][Next]_vars

----------------------------------------------------------------------------
(***************************************************************************)
(* The reduction of one series, on its own: every metric name of the       *)
(* model, every series of 1..MaxLen samples in -2..MaxSample.              *)
(***************************************************************************)
MetricNames ==
    {nCpuUsageAverage, nDiskUsageAverage, nSysUptimeLatest, nDatastoreReadAverage,
     nNetUsageMaximum, nMemActiveMinimum, nVirtualDiskReadAverage,
     nCpuReadySummation, nCpuUsageNone, nMemAbsentAverage}

Samples == UNION {[1..n -> -2..MaxSample] : n \in 1..MaxLen}

AggInit ==
    /\ config = ConfigA
    /\ platform = [i \in 1..NumSources |-> PlatformX]
    /\ MetricGroups = [i \in 1..NumSources |-> <<>>]
    /\ pc = "reduce"
    /\ cur = 1
    /\ stage = "idle"
    /\ loc = LocIdle
    /\ bp = <<>>
    /\ log = <<>>
    /\ served = [i \in 1..NumSources |-> NotServed]
    /\ aggName \in MetricNames
    /\ aggSamples \in Samples
    /\ aggValue = <<>>

\* The series is reduced as the loop over pem.Value reduces it.
Reduce ==
    /\ pc = "reduce"
    /\ aggValue = <<>>
    /\ \E nan \in NaNToInt64 :
          aggValue' = <<SerieValue(ToLower(aggName), aggSamples, nan)>>
    /\ UNCHANGED <<mainVars, aggName, aggSamples>>

AggNext == Reduce

SpecAgg == AggInit /\ [][AggNext]_vars

----------------------------------------------------------------------------
(***************************************************************************)
(* Reference definitions the properties are stated with.                   *)
(***************************************************************************)
RollupAverage == {nCpuUsageAverage, nDiskUsageAverage, nDatastoreReadAverage,
                  nVirtualDiskReadAverage, nMemAbsentAverage}
RollupMaximum == {nNetUsageMaximum}
RollupMinimum == {nMemActiveMinimum}
RollupLatest == {nSysUptimeLatest}
RollupSummation == {nCpuReadySummation}

NonNegative(n) == {n[i] : i \in {j \in 1..Len(n) : n[j] >= 0}}
RefMaximum(n) ==
    IF NonNegative(n) = {} THEN -1
    ELSE CHOOSE x \in NonNegative(n) : \A y \in NonNegative(n) : y <= x
RefMinimum(n) ==
    IF NonNegative(n) = {} THEN -1
    ELSE CHOOSE x \in NonNegative(n) : \A y \in NonNegative(n) : x <= y
\* The sum of the samples that are at least lo.
RECURSIVE RefSum(_, _)
RefSum(n, lo) ==
    IF n = <<>> THEN 0
    ELSE (IF Head(n) >= lo THEN Head(n) ELSE 0) + RefSum(Tail(n), lo)
RefSummation(n) == RefSum(n, 1)
\* floor(mean + 1/2) of the non-negative samples: the k with
\* k <= total/count + 1/2 < k + 1
RefAverage(n) ==
    LET total == RefSum(n, 0)
        count == Cardinality({i \in 1..Len(n) : n[i] >= 0})
    IN  CHOOSE k \in 0..(total + 1) :
            /\ 2 * count * k <= 2 * total + count
            /\ 2 * total + count < 2 * count * (k + 1)

\* C9: the value chosen by the rollup suffix of the metric name is the
\* reference reduction of the samples: maximum and minimum of the
\* non-negative samples or -1 when there is none, the sum of the positive
\* samples, the last sample verbatim, and floor(mean of the non-negative
\* samples + 0.5) when some sample is non-negative.
C9_Reductions ==
    aggValue # <<>> =>
        /\ aggName \in RollupMaximum => aggValue[1] = RefMaximum(aggSamples)
        /\ aggName \in RollupMinimum => aggValue[1] = RefMinimum(aggSamples)
        /\ aggName \in RollupSummation => aggValue[1] = RefSummation(aggSamples)
        /\ aggName \in RollupLatest => aggValue[1] = aggSamples[Len(aggSamples)]
        /\ (aggName \in RollupAverage /\ NonNegative(aggSamples) # {})
              => aggValue[1] = RefAverage(aggSamples)

\* A mean of 1.5 that rounds to 2.
C9_Witness ==
    /\ aggName = nCpuUsageAverage
    /\ aggSamples = <<-1, 1, 2>>
    /\ aggValue = <<2>>

\* The composite identifier of a catalog entry: groupKey.counterName.rollupType
Composite(perf) ==
    perf.GroupKey \o <<".">> \o perf.NameKey \o <<".">> \o perf.RollupType

\* The definitions (name, instance selector, counter id) that belong to the
\* group of type T: some catalog entry with that counter id has the declared
\* name as its composite identifier, and the metric is declared for T.
ExpectedDefinitions(catalog, metrics, T) ==
    UNION {UNION {{MetricDef(metrics[m].Definition[d].Metric,
                             metrics[m].Definition[d].Instances, catalog[p].Key) :
                      d \in {x \in DOMAIN metrics[m].Definition :
                                metrics[m].Definition[x].Metric = Composite(catalog[p])}} :
                  m \in {x \in DOMAIN metrics : T \in SeqToSet(metrics[x].ObjectType)}} :
           p \in DOMAIN catalog}

DeclaredTypes(metrics) == UNION {SeqToSet(metrics[m].ObjectType) : m \in DOMAIN metrics}

\* What the resolution of a source must leave in its groups.
Resolved(groups, catalog, metrics) ==
    LET types == DeclaredTypes(metrics) \cup {groups[i].ObjectType : i \in DOMAIN groups}
        found(T) == UNION {SeqToSet(groups[i].Metrics) :
                              i \in {j \in DOMAIN groups : groups[j].ObjectType = T}}
    IN  /\ \A i, j \in DOMAIN groups :
              groups[i].ObjectType = groups[j].ObjectType => i = j
        /\ \A T \in types : found(T) = ExpectedDefinitions(catalog, metrics, T)
        /\ \A i \in DOMAIN groups : \A k \in DOMAIN groups[i].Metrics :
              \E p \in DOMAIN catalog : Composite(catalog[p]) = groups[i].Metrics[k].Metric

\* C5: the Init of a source whose MetricGroups are empty leaves at most one
\* group per object type; a definition (name, selector, counter id) is in the
\* group of type T exactly when a catalog entry with that counter id has the
\* declared name as composite identifier and the metric is declared for T; a
\* declared metric that matches no catalog entry is in no group.
C5_Resolution ==
    [][(InitResolve /\ MetricGroups[cur] = <<>>)
          => Resolved(MetricGroups'[cur], platform[cur].catalog, config.Metrics)]_vars

\* A source resolved against the small catalog: the declared counters the
\* catalog lacks are dropped, the others are grouped by type.
C5_Witness ==
    /\ pc = "query"
    /\ config = ConfigC
    /\ platform[1] = PlatformY
    /\ Len(MetricGroups[1]) = 3
    /\ Len(MetricGroups[1][1].Metrics) = 1

\* The queries of the running Query are built.
QueriesBuilt ==
    /\ pc = "query"
    /\ \E i \in DOMAIN log : log[i] = Call("LoadRetrievePropertiesResponse", TRUE)

\* The objects of the inventory of a platform.
Inventory(plat) == UNION {SeqToSet(plat.content[dc]) : dc \in DOMAIN plat.content}

\* C4: the query batch holds exactly one spec per scored object whose type
\* is the ObjectType of a MetricGroup of the source, carrying one (counter
\* id, instance selector) pair per definition of that group, in order; an
\* object whose type matches no group has no spec, no spec has an empty
\* metric-id list, and no cluster is in the batch.
C4_Queries ==
    QueriesBuilt =>
        LET G == MetricGroups[cur]
            Q == loc.queries
        IN  /\ \A i \in DOMAIN loc.mors :
                  (\E g \in DOMAIN G : G[g].ObjectType = loc.mors[i].Type)
                     => Cardinality({q \in DOMAIN Q : Q[q].Entity = loc.mors[i]}) = 1
            /\ \A q \in DOMAIN Q :
                  /\ Q[q].Entity \in SeqToSet(loc.mors) \cap Inventory(platform[cur])
                  /\ Q[q].Entity.Type # ClusterComputeResource
                  /\ Q[q].MetricId # <<>>
                  /\ \E g \in DOMAIN G :
                        /\ G[g].ObjectType = Q[q].Entity.Type
                        /\ Q[q].MetricId =
                              [k \in DOMAIN G[g].Metrics |->
                                  [CounterId |-> G[g].Metrics[k].Key,
                                   Instance |-> G[g].Metrics[k].Instances]]

\* VM metrics only, on a platform that holds two VMs, a host, a cluster and
\* a datastore: the batch is the two VMs' specs.
C4_Witness ==
    /\ QueriesBuilt
    /\ config = ConfigA
    /\ platform[cur] = PlatformX
    /\ host1 \in Inventory(platform[cur])
    /\ Len(loc.queries) = 2
    /\ Len(loc.queries[1].MetricId) = 2

\* The inventory and property retrievals whose failure makes Query return,
\* and those of the container views.
ReturningCalls ==
    {"RetrieveOne.ViewManager", "RetrieveOne.RootFolder", "Retrieve.VirtualMachine",
     "Retrieve.HostSystem", "Retrieve.ClusterComputeResource", "RetrieveProperties",
     "LoadRetrievePropertiesResponse"}
ViewCalls == {"CreateContainerView", "RetrieveOne.ContainerView"}

Failed(calls) == \E i \in DOMAIN log : ~log[i].ok /\ log[i].call \in calls
Written == served[cur].Write > 0 \/ \E i \in DOMAIN log : log[i].call = "Write"

\* C3 as stated: when any inventory or property-retrieval step of the cycle
\* has failed, container views included, the sink Write is not called for
\* that source.
C3_AnyFailureNoWrite ==
    pc = "query" => (Failed(ReturningCalls \cup ViewCalls) => ~Written)

\* C3, amended: when the retrieval of the view manager, of the root folder,
\* of the VM, host or cluster properties or of the names fails, that failure
\* is the last call of the cycle: Query returns, nothing is assembled and the
\* sink Write is not called for that source.  (A failing container view only
\* skips its datacenter.)
C3_FailureReturns ==
    pc = "query" =>
        \A i \in DOMAIN log :
            (~log[i].ok /\ log[i].call \in ReturningCalls)
               => /\ i = Len(log)
                  /\ stage = "return"
                  /\ bp = <<>>
                  /\ served[cur].QueryPerf = 0
                  /\ ~Written

\* The host properties fail after both container views were retrieved.
C3_Witness ==
    /\ pc = "query" /\ stage = "return"
    /\ Len(log) = 9
    /\ log[9] = Call("Retrieve.HostSystem", FALSE)
    /\ Len(loc.mors) = 3
    /\ served[cur].Write = 0

\* A name without the configured domain, as written or in lower case.
WithoutDomain(s) ==
    {Replace(s, config.Domain, <<>>), ToLower(Replace(s, config.Domain, <<>>))}

\* C2: every point of the batch has a host tag and a name tag; the host tag
\* is the source's hostname without the configured domain, and the name tag
\* is the display name of an object of the source without the configured
\* domain: no tag merge has put an unstripped value in its place.
C2_HostAndNameStripped ==
    pc = "query" =>
        \A i \in DOMAIN bp :
            /\ {"host", "name"} \subseteq DOMAIN bp[i].tags
            /\ bp[i].tags["host"] \in WithoutDomain(config.VCenters[cur].Hostname)
            /\ \E mor \in DOMAIN platform[cur].name :
                  bp[i].tags["name"] \in WithoutDomain(platform[cur].name[mor])

----------------------------------------------------------------------------
(***************************************************************************)
(* The points of one entity, stated from the series the platform answered. *)
(***************************************************************************)
\* A step of the loop over perfres.Returnval.
PointsStep ==
    /\ pc = "query" /\ stage = "points"
    /\ loc.resIdx <= Len(loc.perfres)
    /\ loc'.resIdx = loc.resIdx + 1

\* The entity the step is about, its series, and the points it added.
StepSeries == loc.perfres[loc.resIdx].Value
StepEntity == loc.perfres[loc.resIdx].Entity
NewPoints == SubSeq(bp', Len(bp) + 1, Len(bp'))

\* The declared name of the counter of a series: that of a definition of
\* the source's groups with the counter's id.
RefMetric(serie) ==
    LET defs == UNION {SeqToSet(MetricGroups[cur][g].Metrics) : g \in DOMAIN MetricGroups[cur]}
    IN  (CHOOSE d \in defs : d.Key = serie.CounterId).Metric

LowerUnderscore(s) ==
    [i \in 1..Len(s) |-> IF s[i] = "." THEN "_" ELSE ToLowerChar(s[i])]

\* fieldName: the counter name in lower case with "." replaced by "_"
RefField(serie) == LowerUnderscore(RefMetric(serie))

\* measurement: the first dot-segment of the counter name, in lower case
RefMeasurement(serie) ==
    LET name == RefMetric(serie)
        dots == {i \in 1..Len(name) : name[i] = "."}
        end == IF dots = {} THEN Len(name)
               ELSE (CHOOSE i \in dots : \A j \in dots : i <= j) - 1
    IN  [i \in 1..end |-> ToLowerChar(name[i])]

\* instance: the series' instance in lower case with "." replaced by "_",
\* empty when the field name contains "datastore"
RefInstance(serie) ==
    LET f == RefField(serie)
    IN  IF \E i \in 1..Len(f) : i + 8 <= Len(f) /\ SubSeq(f, i, i + 8) = sDatastore
        THEN <<>>
        ELSE LowerUnderscore(serie.Instance)

\* The values the reduction of a series can yield.
RefValues(serie) ==
    LET name == RefMetric(serie)
        n == serie.Value
    IN  IF name \in RollupAverage
        THEN IF NonNegative(n) = {} THEN NaNToInt64 ELSE {RefAverage(n)}
        ELSE IF name \in RollupMaximum THEN {RefMaximum(n)}
        ELSE IF name \in RollupMinimum THEN {RefMinimum(n)}
        ELSE IF name \in RollupSummation THEN {RefSummation(n)}
        ELSE IF name \in RollupLatest THEN {n[Len(n)]}
        ELSE {-1}

\* The series of the step that end in the point of instance inst of
\* measurement m (inst = <<>>: in the entity-level point, whatever m).
SeriesOf(m, inst) ==
    {k \in DOMAIN StepSeries :
        /\ RefInstance(StepSeries[k]) = inst
        /\ inst # <<>> => RefMeasurement(StepSeries[k]) = m}

\* fields holds, for each field name of the series ks, the value of the
\* last of them with that name, and nothing else but the names in extra.
FieldsFrom(fields, ks, extra) ==
    /\ DOMAIN fields \subseteq {RefField(StepSeries[k]) : k \in ks} \cup extra
    /\ \A k \in ks :
          /\ RefField(StepSeries[k]) \in DOMAIN fields
          /\ (\A k2 \in ks : RefField(StepSeries[k2]) = RefField(StepSeries[k]) => k2 <= k)
                => (\/ fields[RefField(StepSeries[k])] \in RefValues(StepSeries[k])
                    \/ RefField(StepSeries[k]) \in extra)

\* The fields the host's extra metrics add to the entity-level point.
ExtraFields == IF StepEntity.Type = HostSystem THEN {cpu_corecount_total} ELSE {}

\* C1: in the points of an entity, no series with a non-empty normalised
\* instance contributes to the entity-level field map: the entity-level
\* fields are those of the series with an empty instance (and the host's
\* extra metrics), with their values; the field of a series with an
\* instance is in the point of its (measurement, entity name, instance).
C1_InstanceNotInEntityFields ==
    [][PointsStep =>
          /\ Len(NewPoints) >= 1
          /\ FieldsFrom(NewPoints[1].fields, SeriesOf(<<>>, <<>>), ExtraFields)
          /\ \A k \in DOMAIN StepSeries :
                RefInstance(StepSeries[k]) # <<>> =>
                   \E j \in 2..Len(NewPoints) :
                      /\ NewPoints[j].name = RefMeasurement(StepSeries[k])
                      /\ "instance" \in DOMAIN NewPoints[j].tags
                      /\ NewPoints[j].tags["instance"] = RefInstance(StepSeries[k])
                      /\ NewPoints[j].tags["name"] = NewPoints[1].tags["name"]
                      /\ RefField(StepSeries[k]) \in DOMAIN NewPoints[j].fields
      ]_vars

fCpuUsageAverage == LowerUnderscore(nCpuUsageAverage)
fDiskUsageAverage == LowerUnderscore(nDiskUsageAverage)
fCpuReadySummation == LowerUnderscore(nCpuReadySummation)

\* A VM whose cpu.ready.summation has an aggregate series (3, -1, 4) and a
\* series of instance 0 (0, 5): 7 in the VM's point, 5 in the point of the
\* instance.
C1_Witness ==
    /\ pc = "query" /\ stage = "points"
    /\ config = ConfigC
    /\ Len(bp) >= 2
    /\ bp[1].fields = (fCpuReadySummation :> 7 @@ LowerUnderscore(nCpuUsageNone) :> -1)
    /\ \E j \in 2..Len(bp) :
          /\ bp[j].name = wCpu
          /\ bp[j].tags["instance"] = <<"0">>
          /\ bp[j].fields = (fCpuReadySummation :> 5)

\* The (measurement, instance) pairs of the step's series with an instance.
InstanceKeys ==
    {<<RefMeasurement(StepSeries[k]), RefInstance(StepSeries[k])>> :
        k \in {k \in DOMAIN StepSeries : RefInstance(StepSeries[k]) # <<>>}}

\* C10: one entity yields one entity-level point, named after the entity's
\* type in lower case, and one further point for each distinct
\* (measurement, entity name, instance); that point is named after the
\* measurement, has the entity's tags plus instance, and has the fields of
\* all the series with that key.
C10_PointsPerEntity ==
    [][PointsStep =>
          /\ Len(NewPoints) = 1 + Cardinality(InstanceKeys)
          /\ NewPoints[1].name = ToLower(StepEntity.Type)
          /\ "instance" \notin DOMAIN NewPoints[1].tags
          /\ \A key \in InstanceKeys :
                \E j \in 2..Len(NewPoints) :
                   /\ NewPoints[j].name = key[1]
                   /\ DOMAIN NewPoints[j].tags = DOMAIN NewPoints[1].tags \cup {"instance"}
                   /\ NewPoints[j].tags["instance"] = key[2]
                   /\ \A t \in DOMAIN NewPoints[1].tags :
                         NewPoints[j].tags[t] = NewPoints[1].tags[t]
                   /\ FieldsFrom(NewPoints[j].fields, SeriesOf(key[1], key[2]), {})
                   /\ \A j2 \in 2..Len(NewPoints) :
                         (NewPoints[j2].name = key[1]
                            /\ NewPoints[j2].tags["instance"] = key[2]) => j2 = j
      ]_vars

\* The VM of the example: cpu.usage.average (40, 60) without instance,
\* disk.usage.average (20, 30) of scsi0 and (5, 15) of scsi1 give three
\* points with 50, 25 and 10.
C10_Witness ==
    /\ pc = "query" /\ stage = "points"
    /\ config = ConfigA
    /\ Len(bp) >= 3
    /\ bp[1].name = ToLower(VirtualMachine)
    /\ bp[1].fields = (fCpuUsageAverage :> 50)
    /\ \E i, j \in 2..3 :
          /\ bp[i].name = wDisk /\ bp[j].name = wDisk
          /\ bp[i].tags["instance"] = <<"s", "c", "s", "i", "0">>
          /\ bp[j].tags["instance"] = <<"s", "c", "s", "i", "1">>
          /\ bp[i].fields = (fDiskUsageAverage :> 25)
          /\ bp[j].fields = (fDiskUsageAverage :> 10)
          /\ bp[i].tags["name"] = bp[1].tags["name"]

\* The group of the source for the type of the step's entity, and whether
\* two of its definitions have the same counter id.
StepGroups ==
    {g \in DOMAIN MetricGroups[cur] : MetricGroups[cur][g].ObjectType = StepEntity.Type}
DuplicateCounter(group) ==
    \E i, j \in DOMAIN group.Metrics :
        i # j /\ group.Metrics[i].Key = group.Metrics[j].Key

\* The definitions of a group that ask for the aggregate and whose
\* counter has an aggregate series among the step's.
AnsweredDefinitions(group) ==
    {i \in DOMAIN group.Metrics :
        /\ group.Metrics[i].Instances = noInstance
        /\ \E k \in DOMAIN StepSeries :
              /\ StepSeries[k].CounterId = group.Metrics[i].Key
              /\ RefInstance(StepSeries[k]) = <<>>}

\* C8 as stated: each definition of the group, also one of two with the
\* same counter id, has a field of its own in the entity's point.
C8_IndependentFields ==
    [][PointsStep =>
          \A g \in StepGroups :
              Cardinality(DOMAIN NewPoints[1].fields \ ExtraFields)
                 >= Cardinality(AnsweredDefinitions(MetricGroups[cur][g]))
      ]_vars

\* C8: definitions of a group with the same counter id have the same
\* field name and share one field: the entity's point has one field for
\* each distinct counter id among the series without instance, with the
\* value of the last series of that counter.
C8_SharedField ==
    [][PointsStep =>
          /\ \A g \in StepGroups :
                \A i, j \in DOMAIN MetricGroups[cur][g].Metrics :
                    MetricGroups[cur][g].Metrics[i].Key = MetricGroups[cur][g].Metrics[j].Key
                       => LowerUnderscore(MetricGroups[cur][g].Metrics[i].Metric)
                            = LowerUnderscore(MetricGroups[cur][g].Metrics[j].Metric)
          /\ Cardinality(DOMAIN NewPoints[1].fields \ ExtraFields)
                = Cardinality({StepSeries[k].CounterId : k \in SeriesOf(<<>>, <<>>)})
          /\ FieldsFrom(NewPoints[1].fields, SeriesOf(<<>>, <<>>), ExtraFields)
      ]_vars

\* A VM group with cpu.usage.average twice: four definitions, three fields.
C8_Witness ==
    /\ pc = "query" /\ stage = "points"
    /\ \E g \in DOMAIN MetricGroups[cur] :
          /\ MetricGroups[cur][g].ObjectType = VirtualMachine
          /\ DuplicateCounter(MetricGroups[cur][g])
          /\ \E i \in DOMAIN bp :
                /\ bp[i].name = ToLower(VirtualMachine)
                /\ fCpuUsageAverage \in DOMAIN bp[i].fields
                /\ Cardinality(DOMAIN bp[i].fields) < Len(MetricGroups[cur][g].Metrics)

----------------------------------------------------------------------------
(***************************************************************************)
(* The pass over the sources.                                              *)
(***************************************************************************)
Sources == 1..Len(config.VCenters)

\* C6: when Connect fails for a source in the Query pass, the cycle of
\* that source has no inventory call, no performance query, no point and
\* no Write; main goes on with the next source, which starts as a source
\* starts after any other (no locals, an empty batch, its own groups), and
\* at the end of the run every source has had its Connect.
C6_ConnectFailureIsolated ==
    /\ [](pc = "query" /\ Failed({"Connect"})
            => /\ log = <<Call("Connect", FALSE)>>
               /\ stage = "return"
               /\ loc = LocIdle
               /\ bp = <<>>)
    /\ [](\A i \in Sources :
            served[i].Refused >= 1 => served[i].QueryPerf = 0 /\ served[i].Write = 0)
    /\ [](pc = "done" => \A i \in Sources : served[i].Connect = 1)
    /\ [][(pc = "query" /\ Failed({"Connect"}))
            => /\ cur' = cur + 1
               /\ loc' = LocIdle /\ bp' = <<>> /\ log' = <<>>
               /\ MetricGroups' = MetricGroups
               /\ served' = served
               /\ IF cur < Len(config.VCenters)
                  THEN pc' = "query" /\ stage' = "connect"
                  ELSE pc' = "done"
         ]_vars

\* The first source refused the session and the second one was written.
C6_Witness ==
    /\ served[1].Refused = 1
    /\ served[1].QueryPerf = 0 /\ served[1].Write = 0
    /\ served[2].Connect = 1 /\ served[2].Refused = 0
    /\ served[2].QueryPerf = 1 /\ served[2].Write = 1

\* The stage a call of Query belongs to.
StageOf(call) ==
    IF call = "QueryPerf" THEN 2 ELSE IF call = "Write" THEN 4 ELSE 1

\* C7: in the Query pass one source is in progress at a time: no source
\* after the current one has been called, only the current one is called,
\* and main moves to the next source only when Query has returned; within
\* a source the calls are in the order enumerate, QueryPerf, Write, the
\* points are assembled after QueryPerf and before Write, and a source has
\* at most one QueryPerf and one Write.
C7_OneSourceAtATime ==
    /\ [](pc = "query" => \A i \in Sources : i > cur => served[i] = NotServed)
    /\ [](\A i \in Sources :
            served[i].Connect <= 1 /\ served[i].QueryPerf <= 1 /\ served[i].Write <= 1)
    /\ [](pc = "query" =>
            /\ \A i, j \in DOMAIN log :
                  i < j => /\ StageOf(log[i].call) <= StageOf(log[j].call)
                           /\ StageOf(log[i].call) > 1
                                => StageOf(log[i].call) < StageOf(log[j].call)
            /\ \A i \in DOMAIN log :
                  StageOf(log[i].call) > 1 => log[1] = Call("Connect", TRUE)
            /\ \A i \in DOMAIN log :
                  log[i].call = "Write" => i > 1 /\ log[i - 1] = Call("QueryPerf", TRUE)
            /\ (bp # <<>> \/ stage = "points")
                  => \E i \in DOMAIN log : log[i] = Call("QueryPerf", TRUE))
    /\ [][pc = "query" =>
            /\ \A i \in Sources : i # cur => served'[i] = served[i]
            /\ cur' \in {cur, cur + 1}
            /\ cur' = cur + 1 => stage = "return"
            /\ bp' # bp /\ bp' # <<>> => log[Len(log)] = Call("QueryPerf", TRUE)
         ]_vars

\* The first source is written and the second one is assembling its points.
C7_Witness ==
    /\ pc = "query" /\ cur = 2 /\ stage = "points"
    /\ served[1].Write = 1
    /\ served[2].QueryPerf = 1 /\ served[2].Write = 0
    /\ bp # <<>>

----------------------------------------------------------------------------
(***************************************************************************)
(* Series of datastore counters.                                           *)
(***************************************************************************)
\* The field name has the substring "datastore".
HasDatastore(f) ==
    \E i \in 1..Len(f) : i + 8 <= Len(f) /\ SubSeq(f, i, i + 8) = sDatastore

\* The series of the step whose field name has "datastore".
DatastoreSeries == {k \in DOMAIN StepSeries : HasDatastore(RefField(StepSeries[k]))}

\* C11: a series whose field name contains "datastore" has its value in
\* the entity-level fields whatever instance the platform reported (the
\* value of the last series of that field name), no point of an instance
\* has its field, and no point has an instance tag made of its instance
\* under its measurement.
C11_DatastoreNoInstance ==
    [][PointsStep =>
          \A k \in DatastoreSeries :
              LET f == RefField(StepSeries[k])
                  last == CHOOSE k2 \in DatastoreSeries :
                             /\ RefField(StepSeries[k2]) = f
                             /\ \A k3 \in DatastoreSeries :
                                   RefField(StepSeries[k3]) = f => k3 <= k2
              IN  /\ Len(NewPoints) >= 1
                  /\ "instance" \notin DOMAIN NewPoints[1].tags
                  /\ f \in DOMAIN NewPoints[1].fields
                  /\ NewPoints[1].fields[f] \in RefValues(StepSeries[last])
                  /\ \A j \in 2..Len(NewPoints) :
                        /\ f \notin DOMAIN NewPoints[j].fields
                        /\ StepSeries[k].Instance # <<>>
                             => ~(/\ NewPoints[j].name = RefMeasurement(StepSeries[k])
                                  /\ NewPoints[j].tags["instance"]
                                        = LowerUnderscore(StepSeries[k].Instance))
      ]_vars

fDatastoreReadAverage == LowerUnderscore(nDatastoreReadAverage)

\* A host whose datastore.read.average came with an instance: the field
\* is in the host's point and no point of the batch is of measurement
\* datastore.
C11_Witness ==
    /\ pc = "query" /\ stage = "points"
    /\ loc.resIdx > 1
    /\ \E r \in 1..(loc.resIdx - 1) :
          /\ loc.perfres[r].Entity.Type = HostSystem
          /\ \E k \in DOMAIN loc.perfres[r].Value :
                /\ MapGetStr(loc.metricToName, loc.perfres[r].Value[k].CounterId)
                      = nDatastoreReadAverage
                /\ loc.perfres[r].Value[k].Instance # <<>>
    /\ \E i \in DOMAIN bp :
          /\ bp[i].name = ToLower(HostSystem)
          /\ fDatastoreReadAverage \in DOMAIN bp[i].fields
    /\ \A i \in DOMAIN bp :
          bp[i].name # SplitFirst(nDatastoreReadAverage, dot)

====
